---- MODULE Spec2Model ----
(***************************************************************************)
(* Model of the two notebooks of the repository.                           *)
(*                                                                         *)
(*   L3/03_spatial-join.ipynb : fetch the population grid from a WFS,      *)
(*       rename and subset its columns, read the address points, define    *)
(*       the grid's CRS, reproject the addresses, (join), save.            *)
(*   unnamed/part_000         : build a GeoDataFrame from scratch, insert  *)
(*       a polygon and an attribute, define the CRS, export.               *)
(*                                                                         *)
(* Each notebook is a kernel that runs its code cells top to bottom; a     *)
(* cell that raises stops the run of that notebook.  Cells that only       *)
(* display a value (pop.head(), pop.crs, newdata, plots) change no kernel  *)
(* name and are folded into the cell that follows them; so is the shell    *)
(* cell "!pip install geojson".                                            *)
(*                                                                         *)
(* The cell "# Make a spatial join" of the spatial-join notebook holds a   *)
(* comment only: the repository contains no call of gpd.sjoin and no       *)
(* implementation of a join, so the model has no join operator.            *)
(***************************************************************************)
EXTENDS Integers, Sequences, FiniteSets, TLC

\* ---------------------------------------------------------------- bounds
MaxFeatures == 2      \* rows of the WFS response body
MaxAddresses == 2     \* rows of data/addresses.shp

\* ------------------------------------------------------------- constants
None == "None"                       \* Python's None, as a CRS or a cell
Unbound == [unbound |-> TRUE]        \* a kernel name not yet assigned
NoFile == [nofile |-> TRUE]          \* a path at which no file exists
EPSG_WGS84 == "EPSG:4326"            \* CRS of data/addresses.shp and of newdata
EPSG_GK25 == "EPSG:3879"             \* CRS defined for the population grid

GridCells == {"cellA", "cellB"}      \* grid squares the service can return
Places == {"p1", "p2"}               \* geocoded address points
Populations == {108, 273}            \* values of asukkaita

\* columns of the WFS feature collection, in the order from_features gives
PopColumns ==
  <<"geometry", "index", "asukkaita", "asvaljyys", "ika0_9", "ika10_19",
    "ika20_29", "ika30_39", "ika40_49", "ika50_59", "ika60_69", "ika70_79",
    "ika_yli80">>

\* columns of data/addresses.shp
AddressColumns == <<"address", "id", "addr", "geometry">>

\* the vertex list of the Senate square, as (x, y) in micro-degrees
coordinates ==
  <<<<24950899, 60169158>>, <<24953492, 60169158>>,
    <<24953510, 60170104>>, <<24950958, 60169990>>>>

\* --------------------------------------------------------------- helpers
Range(s) == {s[i] : i \in 1..Len(s)}

SeqsUpTo(S, n) == UNION {[1..k -> S] : k \in 0..n}

\* a geometry: the shape and the reference system its coordinates are in
Geom(shape, frame) == [shape |-> shape, frame |-> frame]

\* one feature of the WFS body: a grid square in GK25 metres and its
\* properties; every property but asukkaita is carried along unread
PopFeature(cell, n) ==
  [c \in Range(PopColumns) |->
     IF c = "geometry" THEN Geom(cell, EPSG_GK25)
     ELSE IF c = "asukkaita" THEN n
     ELSE 0]

\* one row of data/addresses.shp: a point in WGS84 degrees
AddressRow(place) ==
  [c \in Range(AddressColumns) |->
     IF c = "geometry" THEN Geom(place, EPSG_WGS84)
     ELSE IF c = "id" THEN 1000
     ELSE place]

Table(crs, columns, rows) == [crs |-> crs, columns |-> columns, rows |-> rows]

\* bodies the service can answer with: a feature collection, or a body
\* that is not one (an error document)
Bodies ==
  {[kind |-> "features", features |-> f] :
      f \in SeqsUpTo({PopFeature(g, n) : g \in GridCells, n \in Populations},
                     MaxFeatures)}
  \cup {[kind |-> "other", features |-> <<>>]}

\* no answer at all: requests.get raises instead of returning
NoResponse == [status |-> 0, body |-> [kind |-> "none", features |-> <<>>]]

Responses ==
  {[status |-> s, body |-> b] : s \in {200, 500}, b \in Bodies}
  \cup {NoResponse}

\* contents data/addresses.shp can have: absent, or a table in WGS84
AddressFiles ==
  {NoFile} \cup
  {Table(EPSG_WGS84, AddressColumns, r) :
      r \in SeqsUpTo({AddressRow(p) : p \in Places}, MaxAddresses)}

\* ------------------------------------------------------ library wrappers
\* gpd.GeoDataFrame.from_features: one row per feature, no CRS
from_features(features) == Table(None, PopColumns, features)

\* DataFrame.rename(columns={old: new}): a new table, one column renamed
RenameSeq(cols, old, new) ==
  [i \in 1..Len(cols) |-> IF cols[i] = old THEN new ELSE cols[i]]

RenameRow(row, cols, old, new) ==
  [c \in Range(RenameSeq(cols, old, new)) |->
     IF c = new /\ old \in Range(cols) THEN row[old] ELSE row[c]]

\* a rename whose mapping names no column of t: nothing is renamed
rename_no_match(t, old, new) == t

rename(t, old, new) ==
  Table(t.crs, RenameSeq(t.columns, old, new),
        [i \in 1..Len(t.rows) |-> RenameRow(t.rows[i], t.columns, old, new)])

\* DataFrame.__getitem__(list of columns): a new table with those columns
subset(t, cols) ==
  Table(t.crs, cols,
        [i \in 1..Len(t.rows) |-> [c \in Range(cols) |-> t.rows[i][c]]])

\* what calling t.to_crs(crs) without binding its result would leave
to_crs_result_dropped(t, crs) == t

\* what assigning t.crs = crs would do: the declaration only
to_crs_declared_only(t, crs) == Table(crs, t.columns, t.rows)

\* GeoDataFrame.to_crs(crs): a new table, every geometry re-expressed
to_crs(t, crs) ==
  Table(crs, t.columns,
        [i \in 1..Len(t.rows) |->
           [c \in Range(t.columns) |->
              IF c = "geometry"
              THEN Geom(t.rows[i][c].shape, crs)
              ELSE t.rows[i][c]]])

\* the ring print(poly) shows, in micro-degrees
printed_ring ==
  <<<<24950899, 60169158>>, <<24953492, 60169158>>, <<24953510, 60170104>>,
    <<24950958, 60169990>>, <<24950899, 60169158>>>>

\* a polygon that keeps the vertex list as given, ring left open
Polygon_ring_left_open(coords) == coords

\* shapely Polygon(coordinates): the ring is closed with the first vertex
Polygon(coords) ==
  IF coords[Len(coords)] = coords[1] THEN coords ELSE Append(coords, coords[1])

\* ----------------------------------------------------------------- state
VARIABLES
  response,    \* what the WFS answers to the request
  disk,        \* files: path -> table written there, or NoFile
  dirs,        \* directories that exist
  pc,          \* next code cell of the spatial-join notebook
  err,         \* exception that stopped the spatial-join notebook, or None
  pop,         \* kernel name pop
  addresses,   \* kernel name addresses
  join,        \* kernel name join
  pc2,         \* next code cell of the layer-creation notebook
  err2,        \* exception that stopped the layer-creation notebook, or None
  newdata,     \* kernel name newdata
  poly         \* kernel name poly

vars == <<response, disk, dirs, pc, err, pop, addresses, join,
          pc2, err2, newdata, poly>>

joinVars == <<pc, err, pop, addresses, join>>
newVars == <<pc2, err2, newdata, poly>>

DataDir == "data"
SenateDir == "L2_data"
AddrPath == "data/addresses.shp"
OutPath == "data/addresses_population.shp"
SenatePath == "L2_data/Senaatintori.shp"

Init ==
  /\ response \in Responses
  /\ dirs \in SUBSET {DataDir, SenateDir}
  /\ \E f \in AddressFiles :
       /\ f # NoFile => DataDir \in dirs
       /\ disk = [p \in {AddrPath, OutPath, SenatePath} |->
                    IF p = AddrPath THEN f ELSE NoFile]
  /\ pc = "fetch"
  /\ err = None
  /\ pop = Unbound
  /\ addresses = Unbound
  /\ join = Unbound
  /\ pc2 = "create"
  /\ err2 = None
  /\ newdata = Unbound
  /\ poly = Unbound

\* ------------------------------------- cells of L3/03_spatial-join.ipynb
\* r = requests.get(url, params=params)
\* pop = gpd.GeoDataFrame.from_features(geojson.loads(r.content))
\* The status of the response is never read.
Fetch ==
  /\ pc = "fetch"
  /\ IF response.body.kind = "features"
     THEN /\ pop' = from_features(response.body.features)
          /\ pc' = "rename"
          /\ err' = err
     ELSE /\ err' = IF response = NoResponse THEN "ConnectionError"
                    ELSE "ParseError"
          /\ pc' = "stopped"
          /\ pop' = pop
  /\ UNCHANGED <<response, disk, dirs, addresses, join>>
  /\ UNCHANGED newVars

\* pop = pop.rename(columns={'asukkaita': 'pop18'})
Rename ==
  /\ pc = "rename"
  /\ pop' = rename(pop, "asukkaita", "pop18")
  /\ pc' = "subset"
  /\ UNCHANGED <<response, disk, dirs, err, addresses, join>>
  /\ UNCHANGED newVars

\* pop = pop[["pop18", "geometry"]]
Subset ==
  /\ pc = "subset"
  /\ IF {"pop18", "geometry"} \subseteq Range(pop.columns)
     THEN /\ pop' = subset(pop, <<"pop18", "geometry">>)
          /\ pc' = "read"
          /\ err' = err
     ELSE /\ err' = "KeyError"
          /\ pc' = "stopped"
          /\ pop' = pop
  /\ UNCHANGED <<response, disk, dirs, addresses, join>>
  /\ UNCHANGED newVars

\* addresses = gpd.read_file(addr_fp)
ReadAddresses ==
  /\ pc = "read"
  /\ IF disk[AddrPath] # NoFile
     THEN /\ addresses' = disk[AddrPath]
          /\ pc' = "definecrs"
          /\ err' = err
     ELSE /\ err' = "DriverError"
          /\ pc' = "stopped"
          /\ addresses' = addresses
  /\ UNCHANGED <<response, disk, dirs, pop, join>>
  /\ UNCHANGED newVars

\* the CRS given by rebuilding the table from its geometries alone
DefineCrs_rebuilt ==
  /\ pc = "definecrs"
  /\ pop' = Table(EPSG_GK25, <<"geometry">>,
                  [i \in 1..Len(pop.rows) |->
                     [c \in {"geometry"} |-> pop.rows[i][c]]])
  /\ pc' = "tocrs"
  /\ UNCHANGED <<response, disk, dirs, err, addresses, join>>
  /\ UNCHANGED newVars

\* pop.crs = CRS.from_epsg(3879).to_wkt()
DefineCrs ==
  /\ pc = "definecrs"
  /\ pop' = [pop EXCEPT !.crs = EPSG_GK25]
  /\ pc' = "tocrs"
  /\ UNCHANGED <<response, disk, dirs, err, addresses, join>>
  /\ UNCHANGED newVars

\* addresses = addresses.to_crs(pop.crs)
ToCrs ==
  /\ pc = "tocrs"
  /\ addresses' = to_crs(addresses, pop.crs)
  /\ pc' = "sjoin"
  /\ UNCHANGED <<response, disk, dirs, err, pop, join>>
  /\ UNCHANGED newVars

\* "# Make a spatial join": the cell holds this comment and no statement
MakeSpatialJoin ==
  /\ pc = "sjoin"
  /\ pc' = "save"
  /\ UNCHANGED <<response, disk, dirs, err, pop, addresses, join>>
  /\ UNCHANGED newVars

\* join.to_file(outfp)
SaveJoin ==
  /\ pc = "save"
  /\ IF join = Unbound
     THEN /\ err' = "NameError"
          /\ pc' = "stopped"
          /\ disk' = disk
     ELSE IF DataDir \notin dirs
     THEN /\ err' = "DriverError"
          /\ pc' = "stopped"
          /\ disk' = disk
     ELSE /\ disk' = [disk EXCEPT ![OutPath] = join]
          /\ pc' = "done"
          /\ err' = err
  /\ UNCHANGED <<response, dirs, pop, addresses, join>>
  /\ UNCHANGED newVars

\* ----------------------------------------------- cells of unnamed/part_000
\* newdata = gpd.GeoDataFrame()
CreateEmpty ==
  /\ pc2 = "create"
  /\ newdata' = Table(None, <<>>, <<>>)
  /\ pc2' = "addgeometry"
  /\ UNCHANGED <<response, disk, dirs, err2, poly>>
  /\ UNCHANGED joinVars

\* newdata['geometry'] = None
AddGeometryColumn ==
  /\ pc2 = "addgeometry"
  /\ newdata' = [newdata EXCEPT !.columns = Append(@, "geometry")]
  /\ pc2' = "polygon"
  /\ UNCHANGED <<response, disk, dirs, err2, poly>>
  /\ UNCHANGED joinVars

\* coordinates = [...] ; poly = Polygon(coordinates)
\* ("Coordinates of the Helsinki Senate square in decimal degrees")
MakePolygon ==
  /\ pc2 = "polygon"
  /\ poly' = Geom(Polygon(coordinates), EPSG_WGS84)
  /\ pc2' = "insert"
  /\ UNCHANGED <<response, disk, dirs, err2, newdata>>
  /\ UNCHANGED joinVars

\* the cell set one row too far (a label taken for a 1-based position)
SetAt_next_row(t, i, col, value) ==
  LET cols == IF col \in Range(t.columns) THEN t.columns
              ELSE Append(t.columns, col)
      n == IF i + 2 > Len(t.rows) THEN i + 2 ELSE Len(t.rows)
      old(k, c) == IF k <= Len(t.rows) /\ c \in Range(t.columns)
                   THEN t.rows[k][c] ELSE None
  IN Table(t.crs, cols,
           [k \in 1..n |->
              [c \in Range(cols) |->
                 IF k = i + 2 /\ c = col THEN value ELSE old(k, c)]])

\* DataFrame.at[row, col] = value: sets the cell, adding the row and the
\* column when they are missing (new cells are None)
SetAt(t, i, col, value) ==
  LET cols == IF col \in Range(t.columns) THEN t.columns
              ELSE Append(t.columns, col)
      n == IF i + 1 > Len(t.rows) THEN i + 1 ELSE Len(t.rows)
      old(k, c) == IF k <= Len(t.rows) /\ c \in Range(t.columns)
                   THEN t.rows[k][c] ELSE None
  IN Table(t.crs, cols,
           [k \in 1..n |->
              [c \in Range(cols) |->
                 IF k = i + 1 /\ c = col THEN value ELSE old(k, c)]])

\* newdata.at[0, 'geometry'] = poly
InsertPolygon ==
  /\ pc2 = "insert"
  /\ newdata' = SetAt(newdata, 0, "geometry", poly)
  /\ pc2' = "location"
  /\ UNCHANGED <<response, disk, dirs, err2, poly>>
  /\ UNCHANGED joinVars

\* newdata.at[0, 'location'] = 'Senaatintori'
SetLocation ==
  /\ pc2 = "location"
  /\ newdata' = SetAt(newdata, 0, "location", "Senaatintori")
  /\ pc2' = "setcrs"
  /\ UNCHANGED <<response, disk, dirs, err2, poly>>
  /\ UNCHANGED joinVars

\* the notebook without its CRS cell: the run goes on to the export
SetCrs_skipped ==
  /\ pc2 = "setcrs"
  /\ pc2' = "export"
  /\ UNCHANGED <<response, disk, dirs, err2, newdata, poly>>
  /\ UNCHANGED joinVars

\* newdata.crs = CRS.from_epsg(4326).to_wkt()
SetCrs ==
  /\ pc2 = "setcrs"
  /\ newdata' = [newdata EXCEPT !.crs = EPSG_WGS84]
  /\ pc2' = "export"
  /\ UNCHANGED <<response, disk, dirs, err2, poly>>
  /\ UNCHANGED joinVars

\* newdata.to_file(outfp)
Export ==
  /\ pc2 = "export"
  /\ IF SenateDir \in dirs
     THEN /\ disk' = [disk EXCEPT ![SenatePath] = newdata]
          /\ pc2' = "done"
          /\ err2' = err2
     ELSE /\ err2' = "DriverError"
          /\ pc2' = "stopped"
          /\ disk' = disk
  /\ UNCHANGED <<response, dirs, newdata, poly>>
  /\ UNCHANGED joinVars

Next ==
  \/ Fetch
  \/ Rename
  \/ Subset
  \/ ReadAddresses
  \/ DefineCrs
  \/ ToCrs
  \/ MakeSpatialJoin
  \/ SaveJoin
  \/ CreateEmpty
  \/ AddGeometryColumn
  \/ MakePolygon
  \/ InsertPolygon
  \/ SetLocation
  \/ SetCrs
  \/ Export

Spec == Init /\ [][Next]_vars

TypeOK ==
  /\ response \in Responses
  /\ pc \in {"fetch", "rename", "subset", "read", "definecrs", "tocrs",
             "sjoin", "save", "done", "stopped"}
  /\ pc2 \in {"create", "addgeometry", "polygon", "insert", "location",
              "setcrs", "export", "done", "stopped"}
  /\ err \in {None, "ConnectionError", "ParseError", "KeyError",
              "DriverError", "NameError"}
  /\ err2 \in {None, "DriverError"}
  /\ (pc = "stopped") = (err # None)
  /\ (pc2 = "stopped") = (err2 # None)

\* No cell of the spatial-join notebook binds the name join: the run never
\* holds a join result, and the save cell always stops with a NameError.
NoJoinResult ==
  /\ join = Unbound
  /\ disk[OutPath] = NoFile
  /\ pc # "done"

\* ------------------------------------------------------------- properties
\* every table there is: the bound kernel names and the files on disk
Tables ==
  ({pop, addresses, join, newdata} \ {Unbound})
  \cup ({disk[p] : p \in DOMAIN disk} \ {NoFile})

\* every geometry of t has its coordinates in the CRS t declares
GeomInCrs(t) ==
  \A i \in 1..Len(t.rows) :
    "geometry" \in DOMAIN t.rows[i] => t.rows[i]["geometry"].frame = t.crs

\* C11 as stated: in every reachable state every table has all its
\* geometries expressed in the CRS the table declares.
C11_AllTablesInDeclaredCrs == \A t \in Tables : GeomInCrs(t)

\* the reprojection cell: one step binds addresses to a table that declares
\* pop's CRS and has every geometry, the same shapes, rewritten to it
ReprojectionStep ==
  (pc = "tocrs" /\ pc' = "sjoin") =>
    /\ addresses'.crs = pop.crs
    /\ Len(addresses'.rows) = Len(addresses.rows)
    /\ \A i \in 1..Len(addresses.rows) :
         /\ addresses'.rows[i]["geometry"].frame = pop.crs
         /\ addresses'.rows[i]["geometry"].shape =
              addresses.rows[i]["geometry"].shape

\* C11 (amended): in every reachable state every table whose declared CRS
\* is defined has all its geometries expressed in that CRS, and the
\* reprojection changes the declared CRS and every geometry in one step.
C11_DefinedCrsHoldsGeometries ==
  /\ [](\A t \in Tables : t.crs # None => GeomInCrs(t))
  /\ [][ReprojectionStep]_vars

\* C11 witness: the reprojection has run on a table that has rows.
C11_Witness ==
  /\ pc = "sjoin"
  /\ Len(addresses.rows) > 0
  /\ addresses.crs = EPSG_GK25
  /\ addresses.rows[1]["geometry"].frame = EPSG_GK25

\* an HTTP status of the 2xx class
Success(status) == status \in 200..299

\* C14: when the service answers with a non-success response, the retrieval
\* cell ends in an error: the run is stopped with an exception, pop is not
\* built from the response body and no later cell runs.
C14_NonSuccessStopsRetrieval ==
  (response # NoResponse /\ ~Success(response.status) /\ pc # "fetch") =>
    /\ pc = "stopped"
    /\ err # None
    /\ pop = Unbound

\* the cell the spatial-join notebook is about to run raises
JoinCellRaises ==
  \/ pc = "fetch" /\ response.body.kind # "features"
  \/ pc = "subset" /\ ~({"pop18", "geometry"} \subseteq Range(pop.columns))
  \/ pc = "read" /\ disk[AddrPath] = NoFile
  \/ pc = "save" /\ (join = Unbound \/ DataDir \notin dirs)

\* the cell the layer-creation notebook is about to run raises
NewCellRaises == pc2 = "export" /\ SenateDir \notin dirs

\* a step of a cell that raises leaves the notebook stopped with the
\* exception, its names and its output file as they were
RaisingStep ==
  /\ (JoinCellRaises /\ pc' # pc) =>
       /\ pc' = "stopped" /\ err' # None
       /\ pop' = pop /\ addresses' = addresses /\ join' = join
       /\ disk'[OutPath] = disk[OutPath]
  /\ (NewCellRaises /\ pc2' # pc2) =>
       /\ pc2' = "stopped" /\ err2' # None
       /\ newdata' = newdata /\ poly' = poly
       /\ disk'[SenatePath] = disk[SenatePath]

\* once a notebook is stopped by an exception none of its cells runs
NoStepAfterError ==
  /\ err # None => (UNCHANGED joinVars /\ disk'[OutPath] = disk[OutPath])
  /\ err2 # None => (UNCHANGED newVars /\ disk'[SenatePath] = disk[SenatePath])

\* every exception a cell raises reaches the caller: the step that raises
\* puts the notebook in the error state, and after it no later cell of that
\* notebook runs; a notebook completes only without an exception
RaisedExceptionsPropagate ==
  /\ [][RaisingStep]_vars
  /\ [][NoStepAfterError]_vars
  /\ []((pc = "done" => err = None) /\ (pc2 = "done" => err2 = None))
  /\ []((err # None => pc = "stopped") /\ (err2 # None => pc2 = "stopped"))

\* the retrieval fails: the service answers with a non-success response
RetrievalFails ==
  pc = "fetch" /\ response # NoResponse /\ ~Success(response.status)

\* C15: an error of any operation reaches the caller: after a failing step
\* (a cell that raises, or a retrieval that fails) the notebook is in the
\* error state, and no later cell runs as if the step had succeeded.
C15_FailingStepStopsRun ==
  /\ [][((JoinCellRaises \/ RetrievalFails) /\ pc' # pc) =>
          (pc' = "stopped" /\ err' # None)]_vars
  /\ [][(NewCellRaises /\ pc2' # pc2) =>
          (pc2' = "stopped" /\ err2' # None)]_vars
  /\ [][NoStepAfterError]_vars

\* C17: addresses.crs == pop.crs is false in every state before the
\* reprojection cell in which both tables exist, and true in every state
\* from the reprojection cell up to and including the join cell and the
\* save cell that follows it.
C17_CrsMatchOnlyAfterReprojection ==
  /\ pc \in {"definecrs", "tocrs"} => addresses.crs # pop.crs
  /\ (pc \in {"sjoin", "save"} \/ err = "NameError") =>
       /\ addresses.crs = pop.crs
       /\ pop.crs = EPSG_GK25

\* C17 witness: the join cell has been passed with the reprojected
\* addresses and the population grid both holding rows.
C17_Witness ==
  /\ pc = "save"
  /\ Len(addresses.rows) > 0
  /\ Len(pop.rows) > 0
  /\ addresses.crs = pop.crs

\* C18: when the save cell runs, the name join is bound to a table that has
\* the address columns plus the two new columns index_right and pop18.
C18_JoinExistsAtSave ==
  pc = "save" =>
    /\ join # Unbound
    /\ Range(join.columns) =
         Range(AddressColumns) \cup {"index_right", "pop18"}

\* every row of t has the columns of t, exactly one of them the geometry
OneGeometryField(t) ==
  \A i \in 1..Len(t.rows) :
    /\ DOMAIN t.rows[i] = Range(t.columns)
    /\ Cardinality({k \in 1..Len(t.columns) : t.columns[k] = "geometry"}) = 1

\* the rename cell changes the name of the column asukkaita and nothing else
RenameStep ==
  (pc = "rename" /\ pc' = "subset") =>
    /\ "asukkaita" \in Range(pop.columns)
    /\ pop'.crs = pop.crs
    /\ Len(pop'.columns) = Len(pop.columns)
    /\ \A k \in 1..Len(pop.columns) :
         pop'.columns[k] = IF pop.columns[k] = "asukkaita" THEN "pop18"
                           ELSE pop.columns[k]
    /\ Len(pop'.rows) = Len(pop.rows)
    /\ \A i \in 1..Len(pop.rows) : \A k \in 1..Len(pop.columns) :
         pop'.rows[i][pop'.columns[k]] = pop.rows[i][pop.columns[k]]

\* the subset cell leaves the columns pop18 and geometry, values unchanged
SubsetStep ==
  (pc = "subset" /\ pc' = "read") =>
    /\ pop'.columns = <<"pop18", "geometry">>
    /\ pop'.crs = pop.crs
    /\ Len(pop'.rows) = Len(pop.rows)
    /\ \A i \in 1..Len(pop.rows) :
         /\ pop'.rows[i]["pop18"] = pop.rows[i]["pop18"]
         /\ pop'.rows[i]["geometry"] = pop.rows[i]["geometry"]

\* C19: every feature of every table has exactly one geometry field; the
\* rename of asukkaita to pop18 changes only that column's name (same rows,
\* values and geometries), and the subset that follows leaves exactly the
\* columns pop18 and geometry.
C19_SchemaOperations ==
  /\ [](\A t \in Tables : OneGeometryField(t))
  /\ [][RenameStep]_vars
  /\ [][SubsetStep]_vars

\* C19 witness: rename and subset have run on a grid that has rows.
C19_Witness ==
  /\ pc = "read"
  /\ Len(pop.rows) > 0
  /\ pop.columns = <<"pop18", "geometry">>
  /\ pop.rows[1]["pop18"] \in Populations

\* C20: the table built from scratch declares no CRS until the CRS cell has
\* run, it declares EPSG:4326 when the export cell runs, and the file the
\* export writes never holds a table whose CRS is undefined.
C20_CrsAssignedBeforeExport ==
  /\ pc2 \in {"addgeometry", "polygon", "insert", "location", "setcrs"} =>
       newdata.crs = None
  /\ pc2 = "export" => newdata.crs = EPSG_WGS84
  /\ disk[SenatePath] # NoFile =>
       /\ disk[SenatePath].crs # None
       /\ disk[SenatePath].crs = EPSG_WGS84

\* C20 witness: the export has written the table, polygon and CRS included.
C20_Witness ==
  /\ pc2 = "done"
  /\ disk[SenatePath] # NoFile
  /\ Len(disk[SenatePath].rows) = 1
  /\ disk[SenatePath].crs = EPSG_WGS84

\* the geometries of a table, row by row
Geometries(t) == [i \in 1..Len(t.rows) |-> t.rows[i]["geometry"]]

\* the cell that sets location at row 0 sets that cell, adds no row and
\* leaves the geometry of every row as it was
AttributeStep ==
  (pc2 = "location" /\ pc2' = "setcrs") =>
    /\ Len(newdata'.rows) = Len(newdata.rows)
    /\ newdata'.rows[1]["location"] = "Senaatintori"
    /\ Geometries(newdata') = Geometries(newdata)
    /\ newdata'.rows[1]["geometry"] = poly

\* the reprojection cell binds addresses to a new table; the table it was
\* applied to, as read from its file, still has the geometries it had
ReprojectionKeepsSource ==
  (pc = "tocrs" /\ pc' = "sjoin") =>
    /\ disk'[AddrPath] = disk[AddrPath]
    /\ Geometries(disk'[AddrPath]) = Geometries(addresses)
    /\ Len(addresses.rows) > 0 => addresses' # addresses

\* no step changes a geometry that exists: not in pop, not in newdata, not
\* the polygon, and in addresses only by rebinding the name at reprojection
GeometriesKept ==
  /\ pop # Unbound => Geometries(pop') = Geometries(pop)
  /\ (newdata # Unbound /\ Len(newdata.rows) > 0) =>
       Geometries(newdata') = Geometries(newdata)
  /\ poly # Unbound => poly' = poly
  /\ (addresses # Unbound /\ pc # "tocrs") =>
       Geometries(addresses') = Geometries(addresses)

OpenVertexList(vs) ==
  /\ Len(vs) >= 3
  /\ \A i, j \in 1..Len(vs) : i # j => vs[i] # vs[j]

CrsAssignmentStep ==
  /\ (pc = "definecrs" /\ pc' = "tocrs") =>
       /\ pop.crs = None
       /\ pop'.crs = EPSG_GK25
       /\ pop'.columns = pop.columns
       /\ pop'.rows = pop.rows
  /\ (pc2 = "setcrs" /\ pc2' = "export") =>
       /\ newdata.crs = None
       /\ newdata'.crs = EPSG_WGS84
       /\ newdata'.columns = newdata.columns
       /\ newdata'.rows = newdata.rows

\* C23: assigning a CRS to a table whose CRS is undefined (the population
\* grid, the table built from scratch) changes only the declared CRS: no
\* geometry, attribute value or row is changed.
C23_CrsAssignmentOnlyDeclares == [][CrsAssignmentStep]_vars

\* C23 witness: both assignments have run, the grid holding rows.
C23_Witness ==
  /\ pc = "tocrs"
  /\ Len(pop.rows) > 0
  /\ pop.crs = EPSG_GK25
  /\ pc2 = "export"
  /\ newdata.crs = EPSG_WGS84
  /\ Len(newdata.rows) = 1
====
